---- MODULE Spec2Model ----
(***************************************************************************)
(* Verification model of the optimisation scripts of vel113f_h25.  Every   *)
(* script is a straight-line program over a pyomo (or scipy) model: it     *)
(* builds the model, calls an external solver, and reports.  The state is  *)
(* the model object (values, fixed flags, objectives, constraints, dual    *)
(* suffix), the solver result objects the script holds, and what it has    *)
(* printed.  The external solver is modelled by its contract: it returns   *)
(* any optimal point of the model it is handed, or reports infeasibility.  *)
(***************************************************************************)
EXTENDS Integers, Sequences, FiniteSets, TLC

VARIABLES
    script,     \* which script is running
    capacity,   \* knapsack.py: the value bound to W_max for this run
    pc,         \* index of the next statement of Program(script)
    model,      \* the model object
    sols,       \* the solver result objects held by the script's variables
    atSolve,    \* history: the model as it was handed to each solve call
    out,        \* what the script has printed, in order
    returned,   \* what the last call of print_solution returned
    outcome     \* "running", "finished", "returned" or "raised"

vars == <<script, capacity, pc, model, sols, atSolve, out, returned, outcome>>

----------------------------------------------------------------------------
(* Generic helpers *)

\* Python None: the value of a pyomo Var that was declared without initialize
\* and has not been loaded by a solver, and a bound that is absent.
None == -1

RECURSIVE SumOver(_, _)
SumOver(f, S) ==
    IF S = {} THEN 0
    ELSE LET e == CHOOSE e \in S : TRUE
         IN  f[e] + SumOver(f, S \ {e})

\* the elements of a set in a fixed order
RECURSIVE SeqOfSet(_)
SeqOfSet(S) ==
    IF S = {} THEN << >>
    ELSE LET e == CHOOSE e \in S : TRUE
         IN  <<e>> \o SeqOfSet(S \ {e})

Max(a, b) == IF a >= b THEN a ELSE b
Min(a, b) == IF a <= b THEN a ELSE b

\* model.dual before any Suffix is attached
NoSuffix == [attached |-> FALSE, direction |-> "none", keys |-> {}]

\* the objectives of a model that are active
ActiveObjectives(m) ==
    {m.objs[n].name : n \in {n \in 1..Len(m.objs) : m.objs[n].active}}

\* the elements of a sequence
Range(q) == {q[n] : n \in 1..Len(q)}

\* a result object variable that has not been assigned yet
NoResult == [status |-> "none", objective |-> 0, solve |-> 0]

----------------------------------------------------------------------------
(* knapsack.py *)

A == {"hammer", "wrench", "screwdriver", "towel"}
bWrenchFour == [i \in A |-> CASE i = "hammer" -> 8 [] i = "wrench" -> 4
                    [] i = "screwdriver" -> 6 [] i = "towel" -> 11]
b == [i \in A |-> CASE i = "hammer" -> 8 [] i = "wrench" -> 3
                    [] i = "screwdriver" -> 6 [] i = "towel" -> 11]
w == [i \in A |-> CASE i = "hammer" -> 5 [] i = "wrench" -> 7
                    [] i = "screwdriver" -> 4 [] i = "towel" -> 3]
W_max == 14

\* how far below zero and above W_max the capacity of a run may be set
CapSpan == 3
Capacities == (0 - CapSpan) .. (W_max + CapSpan)

\* a binary assignment of model.x is the set of tools with x[i] = 1
KnapValue(S) == SumOver(b, S)
KnapWeight(S) == SumOver(w, S)

\* model.weight_con
WeightConReversed(S, cap) == KnapWeight(S) >= cap
WeightCon(S, cap) == KnapWeight(S) <= cap

KnapFeasible(cap) == {S \in SUBSET A : WeightCon(S, cap)}

\* model.obj, sense = maximize
KnapOptimal(cap) ==
    {S \in KnapFeasible(cap) :
        \A R \in KnapFeasible(cap) : KnapValue(R) <= KnapValue(S)}

KnapVals(S) == [i \in A |-> IF i \in S THEN 1 ELSE 0]
KnapSelected(m) == {i \in A : m.vals[i] = 1}

KnapModel ==
    [name  |-> "unknown",
     vals  |-> [i \in A |-> None],
     fixed |-> {},
     bounds |-> [i \in A |-> <<0, 1>>],
     objs  |-> << [name |-> "obj", active |-> TRUE] >>,
     cons  |-> << <<"weight_con", "all", 0>> >>,
     dual  |-> NoSuffix]

KnapProgram ==
    << [op |-> "suffix", direction |-> "IMPORT_EXPORT"],
       [op |-> "solve", into |-> "opt_success"],
       [op |-> "display"] >>

\* what opt.solve(model) can return for the knapsack model
KnapSolve(m, cap) ==
    IF KnapFeasible(cap) = {}
    THEN {[status |-> "infeasible", vals |-> m.vals, objective |-> 0]}
    ELSE {[status |-> "optimal", vals |-> KnapVals(S),
           objective |-> KnapValue(S)] : S \in KnapOptimal(cap)}

----------------------------------------------------------------------------
(* beer_maxalc_scipy.py and beer_pyomo_rules.py: the blending LP *)

\* Volumes are kept as whole numbers of 1/VolUnit litre.  MixDen is the
\* determinant of the two equalities of the min-cost model (total volume,
\* con_mix) in the columns pilsner and vodka, so that the basic solutions
\* with pilsner and vodka free are whole numbers of that unit.  GridDen
\* subdivides the litre for the points the model enumerates.
GridDen == 1

\* model.A (ordered) and the ingredient order of the scipy vectors
BeerA == <<"pilsner", "vodka", "brandy", "malt">>

\* model.p: alcohol by volume, as multiples of 1/400 (2.25/100 = 9/400)
model_p == [j \in Range(BeerA) |->
            CASE j = "pilsner" -> 9 [] j = "vodka" -> 160
              [] j = "brandy" -> 160 [] j = "malt" -> 6]
\* model.c: cost per litre
model_c == [j \in Range(BeerA) |->
            CASE j = "pilsner" -> 100 [] j = "vodka" -> 2000
              [] j = "brandy" -> 3000 [] j = "malt" -> 120]

MixDen == model_p["vodka"] - model_p["pilsner"]
VolUnit == MixDen * GridDen

\* model.strongAlc = list(model.A)[1:3]
strongAlc == Range(SubSeq(BeerA, 2, 3))
maxStrongAlc == 10
totalVol == 100
\* the 4 of con_mix: sum_product(p, x) == 4
mixTarget == 4

\* ub and lb, in litres (np.inf is no bound)
ub == [j \in Range(BeerA) |->
        CASE j = "pilsner" -> None [] j = "vodka" -> 7
          [] j = "brandy" -> None [] j = "malt" -> 5]
lb == [j \in Range(BeerA) |->
        CASE j = "pilsner" -> 0 [] j = "vodka" -> 0
          [] j = "brandy" -> 2 [] j = "malt" -> 3]

Scaled(litres) == IF litres = None THEN None ELSE litres * VolUnit

bounds_rule(j) == <<Scaled(lb[j]), Scaled(ub[j])>>

RECURSIVE SumProduct(_, _, _)
SumProduct(f, g, S) ==
    IF S = {} THEN 0
    ELSE LET e == CHOOSE e \in S : TRUE
         IN  f[e] * g[e] + SumProduct(f, g, S \ {e})

obj_maxAlc_rule(x) == SumProduct(model_p, x, Range(BeerA))
obj_minCost_expr(x) == SumProduct(model_c, x, Range(BeerA))

con_maxStrongAlc_ruleAll(x) ==
    SumOver(x, Range(BeerA)) <= Scaled(maxStrongAlc)
con_maxStrongAlc_rule(x) ==
    SumOver(x, {j \in Range(BeerA) : j \in strongAlc}) <= Scaled(maxStrongAlc)

con_totalVol_rule(x) == SumOver(x, Range(BeerA)) = Scaled(totalVol)

\* model.p holds fractions, so sum_product(p, x) == 4 reads 400 * 4 here
con_mix_expr(x) ==
    SumProduct(model_p, x, Range(BeerA)) = 400 * Scaled(mixTarget)

WithinBounds(x, bnd) ==
    \A j \in DOMAIN x :
        /\ bnd[j][1] = None \/ x[j] >= bnd[j][1]
        /\ bnd[j][2] = None \/ x[j] <= bnd[j][2]

BeerConHolds(con, x) ==
    CASE con[1] = "con_maxStrongAlc" -> con_maxStrongAlc_rule(x)
      [] con[1] = "con_totalVol" -> con_totalVol_rule(x)
      [] con[1] = "con_mix" -> con_mix_expr(x)

BeerObjValue(name, x) ==
    CASE name = "obj_maxAlc" -> obj_maxAlc_rule(x)
      [] name = "obj_minCost" -> obj_minCost_expr(x)

BeerSense(name) ==
    CASE name = "obj_maxAlc" -> "maximize"
      [] name = "obj_minCost" -> "minimize"

\* the points of one variable's range on the 1/GridDen litre grid; a
\* variable without upper bound cannot exceed the total volume, as no
\* variable is negative
GridRange(j) ==
    {n * MixDen :
        n \in lb[j] * GridDen ..
              (IF ub[j] = None THEN totalVol ELSE ub[j]) * GridDen}

BeerPoint(pils, v, br, m) ==
    [j \in Range(BeerA) |->
        CASE j = "pilsner" -> pils [] j = "vodka" -> v
          [] j = "brandy" -> br [] j = "malt" -> m]

\* The points the solver's answer is looked for among.  Without con_mix:
\* vodka, brandy and malt on the grid and pilsner from the total volume.
\* With con_mix: brandy and malt on the grid, and pilsner and vodka solved
\* from the two equalities (total volume and con_mix).
BeerCandidates(m) ==
    IF <<"con_mix", "all", 0>> \in Range(m.cons)
    THEN {LET rest == br + ml
              restp == model_p["brandy"] * br + model_p["malt"] * ml
              v == (400 * Scaled(mixTarget) - restp
                      - model_p["pilsner"] * (Scaled(totalVol) - rest))
                   \div MixDen
          IN  BeerPoint(Scaled(totalVol) - rest - v, v, br, ml) :
            br \in GridRange("brandy"), ml \in GridRange("malt")}
    ELSE {BeerPoint(Scaled(totalVol) - v - br - ml, v, br, ml) :
            v \in GridRange("vodka"), br \in GridRange("brandy"),
            ml \in GridRange("malt")}

BeerFeasible(m) ==
    {x \in BeerCandidates(m) :
        /\ WithinBounds(x, m.bounds)
        /\ \A con \in Range(m.cons) : BeerConHolds(con, x)}

\* the best of a non-empty set of objective values
Best(sense, V) ==
    CHOOSE v \in V :
        \A u \in V : IF sense = "maximize" THEN v >= u ELSE v <= u

BeerOptimal(m, obj) ==
    LET F == BeerFeasible(m)
        best == Best(BeerSense(obj), {BeerObjValue(obj, x) : x \in F})
    IN  {x \in F : BeerObjValue(obj, x) = best}

\* opt.solve(model) on the blending model: the writer refuses a model that
\* does not have exactly one active objective
BeerSolve(m) ==
    IF Cardinality(ActiveObjectives(m)) # 1
    THEN {[status |-> "raised", vals |-> m.vals, objective |-> 0]}
    ELSE LET obj == CHOOSE o \in ActiveObjectives(m) : TRUE
         IN  IF BeerFeasible(m) = {}
             THEN {[status |-> "infeasible", vals |-> m.vals, objective |-> 0]}
             ELSE {[status |-> "optimal", vals |-> x,
                    objective |-> BeerObjValue(obj, x)] :
                        x \in BeerOptimal(m, obj)}

BeerModel ==
    [name   |-> "Max alcohol mix",
     vals   |-> [j \in Range(BeerA) |-> None],
     fixed  |-> {},
     bounds |-> [j \in Range(BeerA) |-> bounds_rule(j)],
     objs   |-> << [name |-> "obj_maxAlc", active |-> TRUE] >>,
     cons   |-> << <<"con_maxStrongAlc", "all", 0>>,
                   <<"con_totalVol", "all", 0>> >>,
     dual   |-> NoSuffix]

BeerProgram ==
    << [op |-> "suffix", direction |-> "IMPORT_EXPORT"],
       [op |-> "solve", into |-> "sol_maxAlc"],
       [op |-> "print_solution"],
       [op |-> "rename", name |-> "Min cost mix"],
       [op |-> "deactivate", obj |-> "obj_maxAlc"],
       [op |-> "add_objective", obj |-> "obj_minCost"],
       [op |-> "add_constraint", con |-> <<"con_mix", "all", 0>>],
       [op |-> "solve", into |-> "sol_minCost"],
       [op |-> "print_solution"] >>

(* beer_maxalc_scipy.py: the same LP as vectors and matrices *)

v_total == 100
p == <<9, 160, 160, 6>>
A_ub == << <<0, 1, 1, 0>> >>
b_ub == << Scaled(v_total) \div 10 >>
A_eq == << <<1, 1, 1, 1>> >>
b_eq == << Scaled(v_total) >>
bounds == << <<Scaled(0), None>>, <<Scaled(0), Scaled(7)>>,
             <<Scaled(2), None>>, <<Scaled(3), Scaled(5)>> >>

Neg(vec) == [n \in 1..Len(vec) |-> 0 - vec[n]]

RECURSIVE DotUpTo(_, _, _)
DotUpTo(a, x, n) == IF n = 0 THEN 0 ELSE a[n] * x[n] + DotUpTo(a, x, n - 1)
Dot(a, x) == DotUpTo(a, x, Len(x))

AsVector(x) == [n \in 1..Len(BeerA) |-> x[BeerA[n]]]

\* the grid points of one vector component
VecRange(n) ==
    {k * MixDen :
        k \in (bounds[n][1] \div MixDen) ..
              (IF bounds[n][2] = None THEN b_eq[1] ELSE bounds[n][2])
                \div MixDen}

LinprogCandidates ==
    {<<b_eq[1] - x2 - x3 - x4, x2, x3, x4>> :
        x2 \in VecRange(2), x3 \in VecRange(3), x4 \in VecRange(4)}

LinprogFeasible(Aub, bub, Aeq, beq, bnd) ==
    {x \in LinprogCandidates :
        /\ \A r \in 1..Len(Aub) : Dot(Aub[r], x) <= bub[r]
        /\ \A r \in 1..Len(Aeq) : Dot(Aeq[r], x) = beq[r]
        /\ WithinBounds(x, bnd)}

\* linprog(c, A_ub, b_ub, A_eq, b_eq, bounds): minimises c.x
linprog(cvec, Aub, bub, Aeq, beq, bnd) ==
    LET F == LinprogFeasible(Aub, bub, Aeq, beq, bnd)
    IN  IF F = {}
        THEN {[status |-> "infeasible",
               vals |-> [n \in 1..Len(cvec) |-> None], objective |-> 0]}
        ELSE LET best == Best("minimize", {Dot(cvec, x) : x \in F})
             IN  {[status |-> "optimal", vals |-> x, objective |-> best] :
                    x \in {x \in F : Dot(cvec, x) = best}}

\* the script holds no model object; the record stands for the arguments of
\* the linprog call, vals for OptimizeResult.x
ScipyModel ==
    [name   |-> "linprog",
     vals   |-> [n \in 1..Len(p) |-> None],
     fixed  |-> {},
     bounds |-> bounds,
     objs   |-> << [name |-> "c", active |-> TRUE] >>,
     cons   |-> << <<"A_ub", "all", 1>>, <<"A_eq", "all", 1>> >>,
     dual   |-> NoSuffix]

ScipyProgram ==
    << [op |-> "solve", into |-> "OptimizeResult"],
       [op |-> "print_field", field |-> "x"],
       [op |-> "print_field", field |-> "fun"],
       [op |-> "print_field", field |-> "slack"],
       [op |-> "print_field", field |-> "con"],
       [op |-> "print_field", field |-> "success"],
       [op |-> "print_field", field |-> "message"] >>

----------------------------------------------------------------------------
(* jobshop_pyomo.py *)

\* A[j,k]: production time of product j on machine k
JobA == << <<3, 0, 10, 6>>,
           <<8, 2, 0, 3>>,
           <<0, 7, 4, 0>> >>

products == <<"A", "B", "C">>
machines == <<"M1", "M2", "M3", "M4">>

\* model.K: the products processed on each machine
K == [k \in Range(machines) |->
        CASE k = "M1" -> {"A", "B"} [] k = "M2" -> {"B", "C"}
          [] k = "M3" -> {"A", "C"} [] k = "M4" -> {"A", "B"}]

\* model.S: the machines of each product, in processing order
S == [j \in Range(products) |->
        CASE j = "A" -> <<"M1", "M3", "M4">>
          [] j = "B" -> <<"M1", "M2", "M4">>
          [] j = "C" -> <<"M2", "M3">>]

\* Set.ord: the 1-based position of an element
Ord(q, e) == CHOOSE n \in 1..Len(q) : q[n] = e

\* model.tau
tau == [jk \in Range(products) \X Range(machines) |->
            JobA[Ord(products, jk[1])][Ord(machines, jk[2])]]

\* model.M = np.sum(A)
M == SumOver(tau, DOMAIN tau)

\* the indices of model.x, model.t and model.T in the value map
XId(i, j, k) == <<"x", i, j, k>>
TId(j, k) == <<"t", j, k, "-">>
TTotal == <<"T", "-", "-", "-">>

JobXIds == {XId(i, j, k) : i \in Range(products), j \in Range(products),
                           k \in Range(machines)}
JobTIds == {TId(j, k) : j \in Range(products), k \in Range(machines)}
JobIds == JobXIds \cup JobTIds \cup {TTotal}

\* the index triples and pairs for which each rule returns a relation
\* (for the others it returns Constraint.Skip)
StartSeqIdx ==
    {ijk \in Range(products) \X Range(products) \X Range(machines) :
        ijk[1] # ijk[2]}
ProdSeqIdx ==
    {jlk \in Range(products) \X Range(machines) \X Range(machines) :
        /\ jlk[1] \in K[jlk[3]] \cap K[jlk[2]]
        /\ jlk[2] # jlk[3]
        /\ Ord(S[jlk[1]], jlk[2]) < Ord(S[jlk[1]], jlk[3])}
TotalTimeIdx ==
    {jk \in Range(products) \X Range(machines) : jk[1] \in K[jk[2]]}

\* the relations, on a value map v
start_seq_ruleNoTime(v, i, j, k) ==
    v[TId(i, k)] <= v[TId(j, k)] + M * (1 - v[XId(i, j, k)])
start_seq_rule(v, i, j, k) ==
    v[TId(i, k)] + tau[<<i, k>>]
        <= v[TId(j, k)] + M * (1 - v[XId(i, j, k)])
con_symmetry(v, i, j, k) == v[XId(i, j, k)] + v[XId(j, i, k)] = 1
total_time(v, j, k) == v[TId(j, k)] + tau[<<j, k>>] <= v[TTotal]
prod_seq_ruleNoTime(v, j, l, k) == v[TId(j, l)] <= v[TId(j, k)]
prod_seq_rule(v, j, l, k) == v[TId(j, l)] + tau[<<j, l>>] <= v[TId(j, k)]

JobConHolds(con, v) ==
    CASE con[1] = "con_start_seq" -> start_seq_rule(v, con[2], con[3], con[4])
      [] con[1] = "con_symmetry" -> con_symmetry(v, con[2], con[3], con[4])
      [] con[1] = "total_time" -> total_time(v, con[2], con[3])
      [] con[1] = "prod_seq" -> prod_seq_rule(v, con[2], con[3], con[4])

\* model.obj_time
obj_time(v) == v[TTotal]

JobCons ==
    SeqOfSet({<<"con_start_seq", e[1], e[2], e[3]>> : e \in StartSeqIdx})
    \o SeqOfSet({<<"con_symmetry", e[1], e[2], e[3]>> : e \in StartSeqIdx})
    \o SeqOfSet({<<"total_time", e[1], e[2], "-">> : e \in TotalTimeIdx})
    \o SeqOfSet({<<"prod_seq", e[1], e[2], e[3]>> : e \in ProdSeqIdx})

JobModel ==
    [name   |-> "Job shop",
     vals   |-> [id \in JobIds |-> IF id \in JobXIds THEN 0 ELSE None],
     fixed  |-> {},
     bounds |-> [id \in JobIds |-> IF id \in JobXIds THEN <<0, 1>>
                                   ELSE <<0, None>>],
     objs   |-> << [name |-> "obj_time", active |-> TRUE] >>,
     cons   |-> JobCons,
     dual   |-> NoSuffix]

JobProgram ==
    << [op |-> "solve", into |-> "sol_milp"],
       [op |-> "write", of |-> "sol_milp"],
       [op |-> "pprint"],
       [op |-> "fix", var |-> "x"],
       [op |-> "suffix", direction |-> "IMPORT_EXPORT"],
       [op |-> "solve", into |-> "sol_lp"],
       [op |-> "write", of |-> "sol_milp"],
       [op |-> "pprint"] >>

(* The solver on the job-shop model.  con_symmetry makes x[i,j,k] and
   x[j,i,k] complementary, and a cyclic choice (i before j, j before l, l
   before i on one machine) contradicts con_start_seq, whose three
   relations then add up to tau[i,k] + tau[j,k] + tau[l,k] <= 0.  So the
   binaries that are not fixed range over the assignments that put the
   products in a sequence on every machine; the x[i,i,k] occur in no
   constraint and keep their value.  For given binaries the constraints on
   t are difference constraints, whose least solution (every start as early
   as possible) minimises T. *)

MaxOf(V) == CHOOSE u \in V : \A y \in V : u >= y

\* the sequences of all products
Sequencings ==
    {q \in [1..Len(products) -> Range(products)] :
        \A a, c \in 1..Len(products) : a # c => q[a] # q[c]}

\* the binaries that put the products in sequence f[k] on every machine k
XOfSequencing(m, f) ==
    [id \in JobXIds |->
        IF id[2] = id[3] THEN m.vals[id]
        ELSE IF Ord(f[id[4]], id[2]) < Ord(f[id[4]], id[3]) THEN 1 ELSE 0]

JobBinaries(m) ==
    IF JobXIds \subseteq m.fixed
    THEN {[id \in JobXIds |-> m.vals[id]]}
    ELSE {xb \in {XOfSequencing(m, f) :
                    f \in [Range(machines) -> Sequencings]} :
            \A id \in m.fixed : xb[id] = m.vals[id]}

\* one round of raising every start time to what its constraints demand
JobStep(xb, t) ==
    [jk \in Range(products) \X Range(machines) |->
        MaxOf({0}
          \cup {t[<<i, jk[2]>>] + tau[<<i, jk[2]>>]
                    - M * (1 - xb[XId(i, jk[1], jk[2])]) :
                i \in Range(products) \ {jk[1]}}
          \cup {t[<<jk[1], l>>] + tau[<<jk[1], l>>] :
                l \in {l \in Range(machines) :
                        <<jk[1], l, jk[2]>> \in ProdSeqIdx}})]

\* the least start times, or none when the rounds do not settle
RECURSIVE JobLeast(_, _, _)
JobLeast(xb, t, rounds) ==
    LET next == JobStep(xb, t)
    IN  IF next = t THEN [ok |-> TRUE, t |-> t]
        ELSE IF rounds = 0 THEN [ok |-> FALSE, t |-> t]
        ELSE JobLeast(xb, next, rounds - 1)

JobPoint(xb, t) ==
    [id \in JobIds |->
        IF id \in JobXIds THEN xb[id]
        ELSE IF id = TTotal
             THEN MaxOf({0} \cup {t[jk] + tau[jk] : jk \in TotalTimeIdx})
             ELSE t[<<id[2], id[3]>>]]

\* the best point for every feasible choice of the binaries
JobPoints(m) ==
    LET zero == [jk \in Range(products) \X Range(machines) |-> 0]
        rounds == Cardinality(DOMAIN zero) + 1
    IN  {JobPoint(r.xb, r.least.t) :
            r \in {r \in {[xb |-> xb, least |-> JobLeast(xb, zero, rounds)] :
                            xb \in JobBinaries(m)} : r.least.ok}}

JobSolve(m) ==
    IF Cardinality(ActiveObjectives(m)) # 1
    THEN {[status |-> "raised", vals |-> m.vals, objective |-> 0]}
    ELSE LET F == {v \in JobPoints(m) :
                     \A n \in 1..Len(m.cons) : JobConHolds(m.cons[n], v)}
         IN  IF F = {}
             THEN {[status |-> "infeasible", vals |-> m.vals, objective |-> 0]}
             ELSE LET best == Best("minimize", {obj_time(v) : v \in F})
                  IN  {[status |-> "optimal", vals |-> v, objective |-> best] :
                         v \in {v \in F : obj_time(v) = best}}

----------------------------------------------------------------------------
(* homework3_copy.py, varme.py and varme_modified.py: unit commitment.  The
   three scripts share the sets, the demand and the rules on the binaries;
   they differ in the limits, the period lengths and the objective.  A
   value map v gives a value to every index <<variable, unit, period>>. *)

UCScripts == {"homework3", "varme", "varme_modified"}

\* model.units / model.power_units and model.time_periods
units == <<"M1", "M2", "M3">>
time_periods == 1..10

\* the dict demand of rule_param_power_demand
demand == <<50, 60, 80, 70, 60>>

rule_param_power_demand(j) ==
    IF j <= 5 THEN demand[j] ELSE demand[j - 5]

start_cost == [k \in Range(units) |->
                CASE k = "M1" -> 10 [] k = "M2" -> 13 [] k = "M3" -> 16]

\* model.running_cost, in tenths
running_cost(s) ==
    [k \in Range(units) |->
        IF s = "homework3" THEN 25
        ELSE CASE k = "M1" -> 25 [] k = "M2" -> 25 [] k = "M3" -> 24]

\* model.tau (model.T in homework3_copy.py): the length of a period
period_length(s, j) ==
    IF s = "varme" THEN (IF j % 5 # 0 THEN 5 ELSE 4) ELSE 5

unit_limit_lb == [k \in Range(units) |->
                    CASE k = "M1" -> 10 [] k = "M2" -> 12 [] k = "M3" -> 15]

unit_limit_ub(s) ==
    [k \in Range(units) |->
        IF s = "varme_modified"
        THEN CASE k = "M1" -> 50 [] k = "M2" -> 40 [] k = "M3" -> 80
        ELSE CASE k = "M1" -> 50 [] k = "M2" -> 45 [] k = "M3" -> 55]

\* the variable that holds the output of a unit
LoadVar(s) == IF s = "homework3" THEN "unit_load" ELSE "p"

\* model.gamma is kept as a whole number of 1/(ub - lb) of the unit, so that
\* gamma * (ub - lb) is the value stored
GammaOne(s, k) == unit_limit_ub(s)[k] - unit_limit_lb[k]

(* the rules; TRUE stands for Constraint.Skip *)

rule_con_demand(s, v, j) ==
    SumOver([k \in Range(units) |-> v[<<LoadVar(s), k, j>>]], Range(units))
        >= rule_param_power_demand(j)

rule_con_cyclicFour(s, v, k, j) ==
    IF j <= 4 THEN v[<<LoadVar(s), k, j>>] = v[<<LoadVar(s), k, j + 5>>]
    ELSE TRUE

rule_con_cyclic(s, v, k, j) ==
    IF j <= 5 THEN v[<<LoadVar(s), k, j>>] = v[<<LoadVar(s), k, j + 5>>]
    ELSE TRUE

rule_con_consecFirst(v, k, j) ==
    IF j <= 1
    THEN SumOver([i \in j..(j + 3) |-> v[<<"x", k, i>>]], j..(j + 3)) <= 3
    ELSE TRUE

rule_con_consec(v, k, j) ==
    IF 2 * j <= Cardinality(time_periods)
    THEN SumOver([i \in j..(j + 3) |-> v[<<"x", k, i>>]], j..(j + 3)) <= 3
    ELSE TRUE

rule_con_start_lb(v, k, j) ==
    IF j >= 2
    THEN v[<<"x", k, j>>] - v[<<"x", k, j - 1>>]
            >= v[<<"y", k, j>>] - v[<<"z", k, j>>]
    ELSE v[<<"x", k, j>>] >= v[<<"y", k, j>>]

rule_con_start_ubLate(v, k, j) ==
    IF j >= 3
    THEN v[<<"x", k, j>>] - v[<<"x", k, j - 1>>]
            <= (1 - v[<<"z", k, j>>]) - (1 - v[<<"y", k, j>>])
    ELSE IF j = 2 THEN TRUE
    ELSE v[<<"x", k, j>>] <= v[<<"y", k, j>>]

rule_con_start_ub(v, k, j) ==
    IF j >= 2
    THEN v[<<"x", k, j>>] - v[<<"x", k, j - 1>>]
            <= (1 - v[<<"z", k, j>>]) - (1 - v[<<"y", k, j>>])
    ELSE v[<<"x", k, j>>] <= v[<<"y", k, j>>]

con_start_criteria(v, k, j) == v[<<"y", k, j>>] + v[<<"z", k, j>>] <= 1

rule_con_warm_start_lbLate(v, k, j) ==
    IF j >= 3
    THEN v[<<"z", k, j - 1>>] + v[<<"y", k, j>>] >= 2 * v[<<"w", k, j>>]
    ELSE IF j = 2 THEN TRUE
    ELSE v[<<"z", k, j>>] + v[<<"w", k, j>>] = 0

rule_con_warm_start_lb(v, k, j) ==
    IF j >= 2
    THEN v[<<"z", k, j - 1>>] + v[<<"y", k, j>>] >= 2 * v[<<"w", k, j>>]
    ELSE v[<<"z", k, j>>] + v[<<"w", k, j>>] = 0

rule_con_warm_start_ub(v, k, j) ==
    IF j >= 2
    THEN v[<<"z", k, j - 1>>] + v[<<"y", k, j>>]
            <= 2 * v[<<"w", k, j>>] + (1 - v[<<"w", k, j>>])
    ELSE v[<<"z", k, j>>] + v[<<"w", k, j>>] = 0

\* homework3_copy.py: con_unit_load_ub and con_unit_load_lb
con_unit_load_ub(s, v, k, j) ==
    v[<<"unit_load", k, j>>] <= v[<<"x", k, j>>] * unit_limit_ub(s)[k]
con_unit_load_lbLess(s, v, k, j) ==
    v[<<"unit_load", k, j>>] >= v[<<"x", k, j>>] * (unit_limit_lb[k] - 1)
con_unit_load_lb(s, v, k, j) ==
    v[<<"unit_load", k, j>>] >= v[<<"x", k, j>>] * unit_limit_lb[k]

\* varme.py, varme_modified.py: con_gamma and con_unit_load
con_gamma(s, v, k, j) ==
    v[<<"gamma", k, j>>] <= v[<<"x", k, j>>] * GammaOne(s, k)
con_unit_load(s, v, k, j) ==
    v[<<"p", k, j>>]
        = v[<<"x", k, j>>] * unit_limit_lb[k] + v[<<"gamma", k, j>>]

(* rule_obj_cost, in tenths; list(model.time_periods)[:6] is the periods
   1..6 and list(model.time_periods)[5:] the periods 6..10 *)

FirstSix == 1..6
LastFive == 6..10

SumVar(v, var, k, J) == SumOver([j \in J |-> v[<<var, k, j>>]], J)

initial_cold_start_cost(v) ==
    SumOver([k \in Range(units) |->
                (15 * start_cost[k])
                    * (SumVar(v, "y", k, FirstSix) - SumVar(v, "y", k, LastFive))],
            Range(units))

repeat_warm_start_cost(v) ==
    SumOver([k \in Range(units) |->
                SumVar(v, "w", k, LastFive) * (10 * start_cost[k])],
            Range(units))

repeat_cold_start_cost(v) ==
    SumOver([k \in Range(units) |->
                (SumVar(v, "y", k, LastFive) - SumVar(v, "w", k, LastFive))
                    * 15 * start_cost[k]],
            Range(units))

\* the periods the running cost is summed over
RunPeriods(s) ==
    CASE s = "varme" -> LastFive
      [] s = "varme_modified" -> time_periods
      [] OTHER -> {}

running_cost_sum(s, v) ==
    SumOver([k \in Range(units) |->
                SumOver([j \in RunPeriods(s) |->
                            v[<<LoadVar(s), k, j>>] * period_length(s, j)],
                        RunPeriods(s))
                    * running_cost(s)[k]],
            Range(units))

rule_obj_cost(s, v) ==
    CASE s = "homework3" ->
            repeat_cold_start_cost(v) + repeat_warm_start_cost(v)
                + initial_cold_start_cost(v)
      [] s = "varme" ->
            running_cost_sum(s, v) + repeat_cold_start_cost(v)
                + repeat_warm_start_cost(v)
      [] OTHER ->
            running_cost_sum(s, v) + repeat_cold_start_cost(v)
                + repeat_warm_start_cost(v) + initial_cold_start_cost(v)

(* the model as built: variables, constraint instances, objective *)

UCBinVars == {"x", "y", "z", "w"}

UCVars(s) ==
    IF s = "homework3" THEN <<"x", "unit_load", "y", "z", "w">>
    ELSE <<"x", "gamma", "p", "y", "z", "w">>

UCIds(s) ==
    {<<var, k, j>> : var \in Range(UCVars(s)), k \in Range(units),
                     j \in time_periods}

\* the constraint components, in the order of their declaration
UCFamilies(s) ==
    IF s = "homework3"
    THEN <<"con_unit_load_ub", "con_unit_load_lb", "con_demand", "con_cyclic",
           "con_sequence", "con_start_lb", "con_start_ub",
           "con_start_criteria", "con_warm_start_ub", "con_warm_start_lb">>
    ELSE <<"con_gamma", "con_unit_load", "con_demand", "con_cyclic",
           "con_consec", "con_start_lb", "con_start_ub",
           "con_start_criteria", "con_warm_start_ub", "con_warm_start_lb">>

\* a rule that returns Constraint.Skip leaves no instance
UCSkipped(fam, j) ==
    /\ fam \in {"con_cyclic", "con_sequence", "con_consec"}
    /\ j > 5

UCInstancesUnskipped(fam) ==
    IF fam = "con_demand"
    THEN [j \in time_periods |-> <<fam, "all", j>>]
    ELSE [i \in 1..(Len(units) * Cardinality(time_periods)) |->
            <<fam, units[((i - 1) \div 10) + 1], ((i - 1) % 10) + 1>>]

\* the instances of one component; con_demand is indexed by the period only
UCInstances(fam) ==
    IF fam = "con_demand"
    THEN [j \in time_periods |-> <<fam, "all", j>>]
    ELSE LET n == Len(units) * Cardinality(time_periods)
             all == [i \in 1..n |->
                        <<fam, units[((i - 1) \div 10) + 1], ((i - 1) % 10) + 1>>]
         IN  SelectSeq(all, LAMBDA c : ~UCSkipped(fam, c[3]))

RECURSIVE UCConsFrom(_, _)
UCConsFrom(s, n) ==
    IF n > Len(UCFamilies(s)) THEN <<>>
    ELSE UCInstances(UCFamilies(s)[n]) \o UCConsFrom(s, n + 1)

UCCons(s) == UCConsFrom(s, 1)

UCConHolds(s, con, v) ==
    LET fam == con[1]
        k == con[2]
        j == con[3]
    IN  CASE fam = "con_unit_load_ub" -> con_unit_load_ub(s, v, k, j)
          [] fam = "con_unit_load_lb" -> con_unit_load_lb(s, v, k, j)
          [] fam = "con_gamma" -> con_gamma(s, v, k, j)
          [] fam = "con_unit_load" -> con_unit_load(s, v, k, j)
          [] fam = "con_demand" -> rule_con_demand(s, v, j)
          [] fam = "con_cyclic" -> rule_con_cyclic(s, v, k, j)
          [] fam \in {"con_sequence", "con_consec"} -> rule_con_consec(v, k, j)
          [] fam = "con_start_lb" -> rule_con_start_lb(v, k, j)
          [] fam = "con_start_ub" -> rule_con_start_ub(v, k, j)
          [] fam = "con_start_criteria" -> con_start_criteria(v, k, j)
          [] fam = "con_warm_start_ub" -> rule_con_warm_start_ub(v, k, j)
          [] fam = "con_warm_start_lb" -> rule_con_warm_start_lb(v, k, j)

\* the key of the dict demand that rule_param_power_demand reads
DemandKey(j) == IF j <= 5 THEN j ELSE j - 5

\* the variables a rule reads when called with (k, j)
UCRefs(s, con) ==
    LET fam == con[1]
        k == con[2]
        j == con[3]
        At(var, J) == {<<var, k, i>> : i \in J}
    IN  CASE fam \in {"con_unit_load_ub", "con_unit_load_lb"} ->
                At("unit_load", {j}) \cup At("x", {j})
          [] fam = "con_gamma" -> At("gamma", {j}) \cup At("x", {j})
          [] fam = "con_unit_load" ->
                At("p", {j}) \cup At("x", {j}) \cup At("gamma", {j})
          [] fam = "con_demand" ->
                {<<LoadVar(s), u, j>> : u \in Range(units)}
          [] fam = "con_cyclic" ->
                IF j <= 5 THEN At(LoadVar(s), {j, j + 5}) ELSE {}
          [] fam \in {"con_sequence", "con_consec"} ->
                IF 2 * j <= Cardinality(time_periods)
                THEN At("x", j..(j + 3)) ELSE {}
          [] fam \in {"con_start_lb", "con_start_ub"} ->
                IF j >= 2
                THEN At("x", {j, j - 1}) \cup At("y", {j}) \cup At("z", {j})
                ELSE At("x", {j}) \cup At("y", {j})
          [] fam = "con_start_criteria" -> At("y", {j}) \cup At("z", {j})
          [] fam \in {"con_warm_start_ub", "con_warm_start_lb"} ->
                IF j >= 2
                THEN At("z", {j - 1}) \cup At("y", {j}) \cup At("w", {j})
                ELSE At("z", {j}) \cup At("w", {j})

\* binaries are initialised to 0; the continuous variables have no value
UCModel(s) ==
    [name |-> "Varme",
     vals |-> [id \in UCIds(s) |-> IF id[1] \in UCBinVars THEN 0 ELSE None],
     fixed |-> {},
     bounds |-> [id \in UCIds(s) |->
                    IF id[1] \in UCBinVars THEN <<0, 1>>
                    ELSE IF id[1] = "gamma" THEN <<0, GammaOne(s, id[2])>>
                    ELSE <<0, None>>],
     objs |-> <<[name |-> "obj_cost", active |-> TRUE]>>,
     cons |-> UCCons(s),
     dual |-> NoSuffix]

UCProgram(s) ==
    <<[op |-> "solve", into |-> "sol_milp"],
      [op |-> "write", of |-> "sol_milp"],
      [op |-> "pprint"],
      [op |-> "fix", var |-> "x"],
      [op |-> "fix", var |-> "y"],
      [op |-> "fix", var |-> "z"],
      [op |-> "fix", var |-> "w"],
      [op |-> "suffix",
       direction |-> IF s = "homework3" THEN "EXPORT" ELSE "IMPORT_EXPORT"],
      [op |-> "solve", into |-> "sol_lp"],
      [op |-> "write", of |-> "sol_milp"],
      [op |-> "pprint"]>>

(* The solver on a unit-commitment model.  The binaries of one unit are
   enumerated period by period: a row is the sequence of the unit's
   (x, y, z, w) over the periods, and a row is extended by every cell the
   start and warm-start rules allow after its last one. *)

Cell == [x : 0..1, y : 0..1, z : 0..1, w : 0..1]

PairVals(k, j, prev, cur) ==
    [id \in {<<var, k, jj>> : var \in UCBinVars, jj \in {j - 1, j}} |->
        IF id[3] = j THEN cur[id[1]] ELSE prev[id[1]]]

LinkOK(k, j, prev, cur) ==
    LET v == PairVals(k, j, prev, cur)
    IN  /\ rule_con_start_lb(v, k, j)
        /\ rule_con_start_ub(v, k, j)
        /\ con_start_criteria(v, k, j)
        /\ rule_con_warm_start_ub(v, k, j)
        /\ rule_con_warm_start_lb(v, k, j)

RECURSIVE RowsUpTo(_, _)
RowsUpTo(k, n) ==
    IF n = 1 THEN {<<c>> : c \in {c \in Cell : LinkOK(k, 1, c, c)}}
    ELSE LET shorter == RowsUpTo(k, n - 1)
         IN  {Append(rc[1], rc[2]) :
                rc \in {rc \in shorter \X Cell :
                            LinkOK(k, n, rc[1][n - 1], rc[2])}}

RowVals(k, r) ==
    [id \in {<<var, k, j>> : var \in UCBinVars, j \in time_periods} |->
        r[id[3]][id[1]]]

\* the rows the rules on the binaries allow; the rules read no parameter
\* of the unit, so one enumeration serves the three units
BinaryRows ==
    LET k == units[1]
    IN  {r \in RowsUpTo(k, Cardinality(time_periods)) :
            \A j \in time_periods : rule_con_consec(RowVals(k, r), k, j)}

\* the outputs the load rules allow a unit that is on (xv = 1) or off
LoadPoint(s, k, xv, q, g) ==
    (<<"x", k, 1>> :> xv) @@ (<<LoadVar(s), k, 1>> :> q)
        @@ (<<"gamma", k, 1>> :> g)

LoadRange(s, k, xv) ==
    {q \in 0..unit_limit_ub(s)[k] :
        IF s = "homework3"
        THEN /\ con_unit_load_ub(s, LoadPoint(s, k, xv, q, 0), k, 1)
             /\ con_unit_load_lb(s, LoadPoint(s, k, xv, q, 0), k, 1)
        ELSE \E g \in 0..GammaOne(s, k) :
                /\ con_gamma(s, LoadPoint(s, k, xv, q, g), k, 1)
                /\ con_unit_load(s, LoadPoint(s, k, xv, q, g), k, 1)}

\* a function as the table of its values, computed once
Table(f) == f @@ << >>

LoadRanges ==
    Table([s \in UCScripts |-> Table([k \in Range(units) |->
        Table([xv \in 0..1 |-> LoadRange(s, k, xv)])])])

\* con_cyclic ties the output in period j to the one in period j + 5
PairRange(s, k, r, j) ==
    LoadRanges[s][k][r[j].x] \cap LoadRanges[s][k][r[j + 5].x]

LoadRows ==
    Table([s \in UCScripts |-> Table([k \in Range(units) |->
        {r \in BinaryRows : \A j \in 1..5 : PairRange(s, k, r, j) # {}}])])

(* The objective is linear and 0 at the point of zeros, so the cost of a
   point is the sum of the costs of its parts: each unit's row of binaries
   and each period's outputs, every other variable at 0. *)

RowPoint(s, k, r) ==
    [id \in UCIds(s) |->
        IF id[2] = k /\ id[1] \in UCBinVars THEN r[id[3]][id[1]] ELSE 0]

OutputPoint(s, j, q) ==
    [id \in UCIds(s) |->
        IF id[1] = LoadVar(s) /\ id[3] \in {j, j + 5} THEN q[id[2]] ELSE 0]

RowCost ==
    Table([s \in UCScripts |-> Table([k \in Range(units) |->
        Table([r \in LoadRows[s][k] |->
                rule_obj_cost(s, RowPoint(s, k, r))])])])

OnePerUnit(S1, S2, S3) ==
    {(units[1] :> a) @@ (units[2] :> e) @@ (units[3] :> c) :
        a \in S1, e \in S2, c \in S3}

\* an optimum of a linear program is attained at a vertex: every output at
\* an end of its range, or all but one at an end and the demand met exactly
DispatchVertices(R, d) ==
    LET E == [k \in Range(units) |->
                {q \in R[k] : \A u \in R[k] : q <= u}
                    \cup {q \in R[k] : \A u \in R[k] : q >= u}]
        Rest(k1, k2) == {d - (a + e) : a \in E[k1], e \in E[k2]}
    IN  OnePerUnit(E[units[1]], E[units[2]], E[units[3]])
        \cup OnePerUnit(R[units[1]] \cap Rest(units[2], units[3]),
                        E[units[2]], E[units[3]])
        \cup OnePerUnit(E[units[1]],
                        R[units[2]] \cap Rest(units[1], units[3]),
                        E[units[3]])
        \cup OnePerUnit(E[units[1]], E[units[2]],
                        R[units[3]] \cap Rest(units[1], units[2]))

\* the outputs of periods j and j + 5 for the units that are on: of the
\* vertices of least cost the solver is taken to return one
Dispatch(s, j, on) ==
    LET R == [k \in Range(units) |-> LoadRanges[s][k][on[k]]]
        d == Max(rule_param_power_demand(j), rule_param_power_demand(j + 5))
        F == {q \in DispatchVertices(R, d) :
                /\ rule_con_demand(s, OutputPoint(s, j, q), j)
                /\ rule_con_demand(s, OutputPoint(s, j, q), j + 5)}
        cost(q) == rule_obj_cost(s, OutputPoint(s, j, q))
    IN  IF F = {} THEN [ok |-> FALSE, q |-> [k \in Range(units) |-> 0],
                        cost |-> 0]
        ELSE LET best == Best("minimize", {cost(q) : q \in F})
             IN  [ok |-> TRUE,
                  q |-> CHOOSE q \in F : cost(q) = best,
                  cost |-> best]

DispatchOf ==
    Table([s \in UCScripts |-> Table([j \in 1..5 |->
        Table([on \in [Range(units) -> 0..1] |-> Dispatch(s, j, on)])])])

OnAt(c, j) == [k \in Range(units) |-> c[k][j].x]

\* the rows of unit k that agree with the binaries that are fixed
UCRows(s, m, k) ==
    {r \in LoadRows[s][k] :
        \A id \in m.fixed : id[2] = k => r[id[3]][id[1]] = m.vals[id]}

UCChoices(s, m) ==
    {c \in OnePerUnit(UCRows(s, m, units[1]), UCRows(s, m, units[2]),
                      UCRows(s, m, units[3])) :
        \A j \in 1..5 : DispatchOf[s][j][OnAt(c, j)].ok}

UCChoiceCost(s, c) ==
    SumOver([k \in Range(units) |-> RowCost[s][k][c[k]]], Range(units))
        + SumOver([j \in 1..5 |-> DispatchOf[s][j][OnAt(c, j)].cost], 1..5)

UCPoint(s, c) ==
    [id \in UCIds(s) |->
        LET k == id[2]
            j == id[3]
            q == DispatchOf[s][IF j <= 5 THEN j ELSE j - 5]
                           [OnAt(c, IF j <= 5 THEN j ELSE j - 5)].q
        IN  IF id[1] \in UCBinVars THEN c[k][j][id[1]]
            ELSE IF id[1] = "gamma" THEN q[k] - c[k][j].x * unit_limit_lb[k]
            ELSE q[k]]

UCFeasible(s, m, v) ==
    /\ \A id \in DOMAIN v :
            /\ v[id] >= m.bounds[id][1]
            /\ m.bounds[id][2] # None => v[id] <= m.bounds[id][2]
    /\ \A n \in 1..Len(m.cons) : UCConHolds(s, m.cons[n], v)

UCSolve(s, m) ==
    IF Cardinality(ActiveObjectives(m)) # 1
    THEN {[status |-> "raised", vals |-> m.vals, objective |-> 0]}
    ELSE LET C == UCChoices(s, m)
         IN  IF C = {}
             THEN {[status |-> "infeasible", vals |-> m.vals, objective |-> 0]}
             ELSE LET best == Best("minimize", {UCChoiceCost(s, c) : c \in C})
                      opt == {UCPoint(s, c) :
                                c \in {c \in C : UCChoiceCost(s, c) = best}}
                  IN  {[status |-> "optimal", vals |-> v, objective |-> best] :
                         v \in {v \in opt : /\ UCFeasible(s, m, v)
                                            /\ rule_obj_cost(s, v) = best}}

----------------------------------------------------------------------------
(* print_solution, as defined in beer_pyomo_rules.py ("inline": the dual is
   looked up inside the constraint's print call) and in homework3_copy.py,
   varme_modified.py and jobshop_pyomo.py ("guarded": the dual is looked up
   in a try block of its own) *)

DualAvailable(m, con) == m.dual.attached /\ con \in m.dual.keys

\* result_model.dual[con[idx]]: what reading an entry leaves in the suffix
DualReadInserting(d, con) == [d EXCEPT !.keys = @ \cup {con}]
DualRead(d, con) == d

ObjectiveLines(m) ==
    [n \in 1..Len(m.objs) |-> [kind |-> "objective", of |-> m.objs[n].name]]

\* the loop over the variables prints the value and the bounds of each
VariableLines(m) ==
    << [kind |-> "variables", of |-> DOMAIN m.vals, value |-> m.vals,
        bounds |-> m.bounds] >>

\* the constraints whose dual the loop has looked up when it ends: all of
\* them, or, when a lookup raised, those up to the one it raised on
DualLookups(variant, m) ==
    LET missing == {n \in 1..Len(m.cons) : ~DualAvailable(m, m.cons[n])}
    IN  IF variant = "inline" /\ missing # {}
        THEN 1..(CHOOSE n \in missing : \A k \in missing : n <= k)
        ELSE 1..Len(m.cons)

\* the model after the lookups (a lookup on a model without a suffix raises
\* before it reads anything)
AfterLookups(variant, m) ==
    IF ~m.dual.attached THEN m
    ELSE [m EXCEPT !.dual.keys =
            @ \cup UNION {DualRead(m.dual, m.cons[n]).keys :
                            n \in DualLookups(variant, m)}]

\* the loop over the constraints
ReportConstraints(variant, m, lines) ==
    LET looked == DualLookups(variant, m)
        raised == \E n \in looked : ~DualAvailable(m, m.cons[n])
    IN  IF variant = "inline"
        THEN [lines |-> lines \o
                [n \in 1..(Cardinality(looked) - (IF raised THEN 1 ELSE 0)) |->
                    [kind |-> "constraint_and_dual", of |-> m.cons[n]]],
              raised |-> raised,
              model |-> AfterLookups(variant, m)]
        ELSE [lines |-> lines \o
                [n \in 1..(2 * Len(m.cons)) |->
                    LET con == m.cons[(n + 1) \div 2]
                    IN  IF n % 2 = 1 THEN [kind |-> "constraint", of |-> con]
                        ELSE [kind |-> IF DualAvailable(m, con) THEN "dual"
                                       ELSE "duals_unavailable",
                              of |-> con]],
              raised |-> FALSE,
              model |-> AfterLookups(variant, m)]

\* pyo.value raises on a variable that holds no value
print_solution(variant, m) ==
    LET head == << [kind |-> "name", of |-> m.name] >>
    IN  IF \E v \in DOMAIN m.vals : m.vals[v] = None
        THEN [lines |-> head, raised |-> TRUE, model |-> m]
        ELSE ReportConstraints(variant, m,
                head \o ObjectiveLines(m) \o VariableLines(m))

----------------------------------------------------------------------------
(* The scripts as programs *)

Scripts == {"knapsack", "beer_scipy", "beer_pyomo", "jobshop"} \cup UCScripts

Program(s) ==
    CASE s = "knapsack" -> KnapProgram
      [] s = "beer_scipy" -> ScipyProgram
      [] s = "beer_pyomo" -> BeerProgram
      [] s = "jobshop" -> JobProgram
      [] s \in UCScripts -> UCProgram(s)

BuiltModel(s) ==
    CASE s = "knapsack" -> KnapModel
      [] s = "beer_scipy" -> ScipyModel
      [] s = "beer_pyomo" -> BeerModel
      [] s = "jobshop" -> JobModel
      [] s \in UCScripts -> UCModel(s)

ResultVars(s) ==
    CASE s = "knapsack" -> {"opt_success"}
      [] s = "beer_scipy" -> {"OptimizeResult"}
      [] s = "beer_pyomo" -> {"sol_maxAlc", "sol_minCost"}
      [] s = "jobshop" -> {"sol_milp", "sol_lp"}
      [] s \in UCScripts -> {"sol_milp", "sol_lp"}

\* the integer (binary) variables of a script's model
IntegerVars(s, m) ==
    CASE s = "knapsack" -> A
      [] s = "beer_scipy" -> {}
      [] s = "beer_pyomo" -> {}
      [] s = "jobshop" -> JobXIds
      [] s \in UCScripts -> {id \in UCIds(s) : id[1] \in UCBinVars}

\* the indices of a variable family of a script's model
VarIds(s, var) ==
    CASE s = "jobshop" -> {id \in JobIds : id[1] = var}
      [] s \in UCScripts -> {id \in UCIds(s) : id[1] = var}

\* which print_solution a script defines
PrintVariant(s) ==
    CASE s = "beer_pyomo" -> "inline"
      [] OTHER -> "guarded"

SolveOutcomes(s, m, cap) ==
    CASE s = "knapsack" -> KnapSolve(m, cap)
      [] s = "beer_scipy" -> linprog(Neg(p), A_ub, b_ub, A_eq, b_eq, m.bounds)
      [] s = "beer_pyomo" -> BeerSolve(m)
      [] s = "jobshop" -> JobSolve(m)
      [] s \in UCScripts -> UCSolve(s, m)

Running == outcome = "running" /\ pc \in 1..Len(Program(script))
Stmt == Program(script)[pc]

\* Whether the solver hands back dual values: the suffix must import them,
\* the solve must have succeeded, and the problem sent must be an LP (no
\* integer variable left free).
DualsReturned(s, m, status) ==
    /\ m.dual.attached
    /\ m.dual.direction \in {"IMPORT", "IMPORT_EXPORT"}
    /\ status = "optimal"
    /\ IntegerVars(s, m) \subseteq m.fixed

----------------------------------------------------------------------------
(* Statements *)

\* model.dual = pyo.Suffix(direction=...)
AttachSuffix ==
    /\ Running /\ Stmt.op = "suffix"
    /\ model' = [model EXCEPT !.dual =
                    [attached |-> TRUE, direction |-> Stmt.direction,
                     keys |-> {}]]
    /\ pc' = pc + 1
    /\ UNCHANGED <<script, capacity, sols, atSolve, out, returned, outcome>>

\* <into> = opt.solve(model): the solver loads the primal values it found
\* into the variables that are not fixed, and the duals when it has them.
Solve ==
    /\ Running /\ Stmt.op = "solve"
    /\ \E o \in SolveOutcomes(script, model, capacity) :
        IF o.status = "raised"
        THEN /\ outcome' = "raised"
             /\ UNCHANGED <<model, sols, pc>>
        ELSE /\ model' = [model EXCEPT
                            !.vals = o.vals,
                            !.dual.keys =
                                IF DualsReturned(script, model, o.status)
                                THEN Range(model.cons) ELSE model.dual.keys]
             /\ sols' = [sols EXCEPT ![Stmt.into] =
                            [status |-> o.status, objective |-> o.objective,
                             solve |-> Len(atSolve) + 1]]
             /\ pc' = pc + 1
             /\ outcome' = outcome
    /\ atSolve' = Append(atSolve, model)
    /\ UNCHANGED <<script, capacity, out, returned>>

\* print_solution(model)
PrintSolution ==
    /\ Running /\ Stmt.op = "print_solution"
    /\ LET r == print_solution(PrintVariant(script), model)
       IN  /\ model' = r.model
           /\ out' = out \o r.lines
           /\ IF r.raised
              THEN outcome' = "raised" /\ UNCHANGED <<pc, returned>>
              ELSE outcome' = outcome /\ pc' = pc + 1 /\ returned' = r.model
    /\ UNCHANGED <<script, capacity, sols, atSolve>>

\* model.name = ...
Rename ==
    /\ Running /\ Stmt.op = "rename"
    /\ model' = [model EXCEPT !.name = Stmt.name]
    /\ pc' = pc + 1
    /\ UNCHANGED <<script, capacity, sols, atSolve, out, returned, outcome>>

\* model.<obj>.deactivate()
DeactivateNothing(objs, name) == objs
Deactivated(objs, name) ==
    [n \in 1..Len(objs) |->
        IF objs[n].name = name THEN [objs[n] EXCEPT !.active = FALSE]
        ELSE objs[n]]

Deactivate ==
    /\ Running /\ Stmt.op = "deactivate"
    /\ model' = [model EXCEPT !.objs = Deactivated(model.objs, Stmt.obj)]
    /\ pc' = pc + 1
    /\ UNCHANGED <<script, capacity, sols, atSolve, out, returned, outcome>>

\* model.<obj> = pyo.Objective(...): a new objective is active
AddObjective ==
    /\ Running /\ Stmt.op = "add_objective"
    /\ model' = [model EXCEPT
                    !.objs = Append(@, [name |-> Stmt.obj, active |-> TRUE])]
    /\ pc' = pc + 1
    /\ UNCHANGED <<script, capacity, sols, atSolve, out, returned, outcome>>

\* model.<con> = pyo.Constraint(...)
AddConstraint ==
    /\ Running /\ Stmt.op = "add_constraint"
    /\ model' = [model EXCEPT !.cons = Append(@, Stmt.con)]
    /\ pc' = pc + 1
    /\ UNCHANGED <<script, capacity, sols, atSolve, out, returned, outcome>>

\* print(..., OptimizeResult.<field>)
ResultField(field) ==
    LET res == sols["OptimizeResult"]
        x == model.vals
    IN  CASE field = "x" -> x
          [] field = "fun" -> res.objective
          [] field = "slack" ->
                [r \in 1..Len(A_ub) |-> b_ub[r] - Dot(A_ub[r], x)]
          [] field = "con" ->
                [r \in 1..Len(A_eq) |-> b_eq[r] - Dot(A_eq[r], x)]
          [] field = "success" -> res.status = "optimal"
          [] field = "message" -> res.status

PrintField ==
    /\ Running /\ Stmt.op = "print_field"
    /\ out' = Append(out, [kind |-> "field", of |-> Stmt.field,
                           value |-> ResultField(Stmt.field)])
    /\ pc' = pc + 1
    /\ UNCHANGED <<script, capacity, model, sols, atSolve, returned, outcome>>

\* model.display(): prints every variable value and the objective value.
\* With variables that hold no value the evaluation of the objective either
\* raises (ValueError) or prints None, depending on the pyomo release.
Display ==
    /\ Running /\ Stmt.op = "display"
    /\ \/ /\ out' = Append(out, [kind |-> "display", vals |-> model.vals,
                                 solve |-> Len(atSolve)])
          /\ pc' = pc + 1
          /\ outcome' = outcome
       \/ /\ \E v \in DOMAIN model.vals : model.vals[v] = None
          /\ outcome' = "raised"
          /\ UNCHANGED <<pc, out>>
    /\ UNCHANGED <<script, capacity, model, sols, atSolve, returned>>

\* <result>.write(): renders the result object held by the named variable
Write ==
    /\ Running /\ Stmt.op = "write"
    /\ out' = Append(out, [kind |-> "write", result |-> sols[Stmt.of],
                           after |-> Len(atSolve)])
    /\ pc' = pc + 1
    /\ UNCHANGED <<script, capacity, model, sols, atSolve, returned, outcome>>

\* model.pprint(): prints the model with the values it holds
Pprint ==
    /\ Running /\ Stmt.op = "pprint"
    /\ out' = Append(out, [kind |-> "pprint", vals |-> model.vals,
                           after |-> Len(atSolve)])
    /\ pc' = pc + 1
    /\ UNCHANGED <<script, capacity, model, sols, atSolve, returned, outcome>>

\* model.<var>.fix(): every index of the variable is fixed at the value it
\* holds
FixValueZero(m, id) == 0
FixValue(m, id) == m.vals[id]

FixedAfterNoFix(fixed, ids) == fixed
FixedAfter(fixed, ids) == fixed \cup ids

Fix ==
    /\ Running /\ Stmt.op = "fix"
    /\ LET ids == VarIds(script, Stmt.var)
       IN  model' = [model EXCEPT
                        !.fixed = FixedAfter(@, ids),
                        !.vals = [id \in DOMAIN @ |->
                                    IF id \in ids THEN FixValue(model, id)
                                    ELSE @[id]]]
    /\ pc' = pc + 1
    /\ UNCHANGED <<script, capacity, sols, atSolve, out, returned, outcome>>

\* the script ran off its last statement
Finish ==
    /\ outcome = "running" /\ pc = Len(Program(script)) + 1
    /\ outcome' = "finished"
    /\ UNCHANGED <<script, capacity, pc, model, sols, atSolve, out, returned>>

----------------------------------------------------------------------------

Init ==
    /\ script \in Scripts
    /\ capacity \in (IF script = "knapsack" THEN Capacities ELSE {W_max})
    /\ pc = 1
    /\ model = BuiltModel(script)
    /\ sols = [r \in ResultVars(script) |-> NoResult]
    /\ atSolve = << >>
    /\ out = << >>
    /\ returned = None
    /\ outcome = "running"

Next ==
    \/ AttachSuffix
    \/ Solve
    \/ Display
    \/ PrintSolution
    \/ Rename
    \/ Deactivate
    \/ AddObjective
    \/ AddConstraint
    \/ PrintField
    \/ Write
    \/ Pprint
    \/ Fix
    \/ Finish

Spec == Init /\ [][Next]_vars

----------------------------------------------------------------------------
(* print_solution called on its own: on the model of every script that
   defines it, as built or as a solve leaves it, with or without a dual
   suffix, and with duals missing for some of the constraints *)

PrintScripts == {"beer_pyomo", "homework3", "varme_modified", "jobshop"}

\* duals may be missing for any of the first PrintMissing constraints
PrintMissing == 3

\* the model with the values of one optimal point loaded (what
\* print_solution does is the same for every point)
SolvedModels(s) ==
    LET o == CHOOSE o \in SolveOutcomes(s, BuiltModel(s), W_max) :
                o.status = "optimal"
    IN  {[BuiltModel(s) EXCEPT !.vals = o.vals]}

PrintSuffixes(m) ==
    {NoSuffix} \cup
    {[attached |-> TRUE, direction |-> dir, keys |-> Range(m.cons) \ miss] :
        dir \in {"IMPORT", "EXPORT", "IMPORT_EXPORT"},
        miss \in SUBSET {m.cons[n] :
                            n \in 1..Min(PrintMissing, Len(m.cons))}}

PrintModels(s) ==
    {[m EXCEPT !.dual = d] :
        m \in {BuiltModel(s)} \cup SolvedModels(s),
        d \in PrintSuffixes(BuiltModel(s))}

InitPrint ==
    /\ script \in PrintScripts
    /\ capacity = W_max
    /\ pc = 0
    /\ model \in PrintModels(script)
    /\ sols = [r \in ResultVars(script) |-> NoResult]
    /\ atSolve = << >>
    /\ out = << >>
    /\ returned = None
    /\ outcome = "running"

CallPrintSolution ==
    /\ outcome = "running" /\ pc = 0
    /\ LET r == print_solution(PrintVariant(script), model)
       IN  /\ model' = r.model
           /\ out' = r.lines
           /\ IF r.raised
              THEN outcome' = "raised" /\ returned' = returned
              ELSE outcome' = "returned" /\ returned' = r.model
    /\ pc' = 1
    /\ UNCHANGED <<script, capacity, sols, atSolve>>

NextPrint == CallPrintSolution

SpecPrint == InitPrint /\ [][NextPrint]_vars

----------------------------------------------------------------------------
(* The feasible region of the unit-commitment models: the model of each
   script as built, loaded with an assignment that satisfies every
   constraint instance and every bound.  The binaries range over every row
   the rules allow; the outputs over the vertices of each period's
   dispatch. *)

\* the outputs of unit k in periods j and j + 5 that the load rules and
\* con_cyclic allow when its states in the two periods are xx[1] and xx[2]
CyclicPairs ==
    Table([s \in UCScripts |-> Table([k \in Range(units) |->
        Table([j \in 1..5 |-> Table([xx \in (0..1) \X (0..1) |->
            {qq \in LoadRanges[s][k][xx[1]] \X LoadRanges[s][k][xx[2]] :
                rule_con_cyclic(s, (<<LoadVar(s), k, j>> :> qq[1])
                                    @@ (<<LoadVar(s), k, j + 5>> :> qq[2]),
                                k, j)}])])])])

FeasibleRows ==
    Table([s \in UCScripts |-> Table([k \in Range(units) |->
        {r \in BinaryRows :
            \A j \in 1..5 : CyclicPairs[s][k][j][<<r[j].x, r[j + 5].x>>] # {}}])])

LoadsAt(s, j, q) == [id \in {<<LoadVar(s), k, j>> : k \in Range(units)} |-> q[id[2]]]

\* the outputs of all units in periods j (qq[1]) and j + 5 (qq[2])
PairOutputs(s, j, on) ==
    LET R(i) == [k \in Range(units) |-> LoadRanges[s][k][on[i][k]]]
    IN  {qq \in DispatchVertices(R(1), rule_param_power_demand(j))
                    \X DispatchVertices(R(2), rule_param_power_demand(j + 5)) :
            /\ \A k \in Range(units) :
                    <<qq[1][k], qq[2][k]>>
                        \in CyclicPairs[s][k][j][<<on[1][k], on[2][k]>>]
            /\ rule_con_demand(s, LoadsAt(s, j, qq[1]), j)
            /\ rule_con_demand(s, LoadsAt(s, j + 5, qq[2]), j + 5)}

PairOutputsOf ==
    Table([s \in UCScripts |-> Table([j \in 1..5 |->
        Table([on \in [Range(units) -> 0..1] \X [Range(units) -> 0..1] |->
                PairOutputs(s, j, on)])])])

\* the value of gamma that con_gamma and con_unit_load leave for an output
GammaFor(s, k, xv, q) ==
    CHOOSE g \in 0..GammaOne(s, k) :
        /\ con_gamma(s, LoadPoint(s, k, xv, q, g), k, 1)
        /\ con_unit_load(s, LoadPoint(s, k, xv, q, g), k, 1)

\* the assignment with the rows c of binaries and the outputs o
UCAssignment(s, c, o) ==
    Table([id \in UCIds(s) |->
        LET k == id[2]
            j == id[3]
            q == IF j <= 5 THEN o[j][1][k] ELSE o[j - 5][2][k]
        IN  IF id[1] \in UCBinVars THEN c[k][j][id[1]]
            ELSE IF id[1] = "gamma" THEN GammaFor(s, k, c[k][j].x, q)
            ELSE q])

\* the outputs of the periods 1..MovedPeriods (and of the periods five
\* later) are moved over every vertex, one period after the other; the
\* others stay at the vertex loaded
MovedPeriods == 1

InitFeasible ==
    /\ script \in UCScripts
    /\ capacity = W_max
    /\ pc = 0
    /\ model = UCModel(script)
    /\ sols = [r \in ResultVars(script) |-> NoResult]
    /\ atSolve = << >>
    /\ out = << >>
    /\ returned = None
    /\ outcome = "running"

LoadAssignment ==
    /\ outcome = "running" /\ pc = 0
    /\ \E a \in FeasibleRows[script][units[1]],
          e \in FeasibleRows[script][units[2]],
          g \in FeasibleRows[script][units[3]] :
            LET c == (units[1] :> a) @@ (units[2] :> e) @@ (units[3] :> g)
                F(j) == PairOutputsOf[script][j][<<OnAt(c, j), OnAt(c, j + 5)>>]
            IN  /\ \A j \in 1..5 : F(j) # {}
                /\ LET o == [j \in 1..5 |-> CHOOSE qq \in F(j) : TRUE]
                   IN  \E v \in {v \in {UCAssignment(script, c, o)} :
                                    UCFeasible(script, model, v)} :
                            model' = [model EXCEPT !.vals = v]
    /\ outcome' = "feasible"
    /\ UNCHANGED <<script, capacity, pc, sols, atSolve, out, returned>>

MoveOutputs ==
    /\ outcome = "feasible" /\ pc < Min(MovedPeriods, 5)
    /\ \E j \in {pc + 1} :
        LET on == <<[k \in Range(units) |-> model.vals[<<"x", k, j>>]],
                    [k \in Range(units) |-> model.vals[<<"x", k, j + 5>>]]>>
        IN  \E qq \in PairOutputsOf[script][j][on] :
                LET moved == Table([id \in UCIds(script) |->
                            IF id[1] \in UCBinVars \/ id[3] \notin {j, j + 5}
                            THEN model.vals[id]
                            ELSE LET q == IF id[3] = j THEN qq[1][id[2]]
                                          ELSE qq[2][id[2]]
                                 IN  IF id[1] = "gamma"
                                     THEN GammaFor(script, id[2],
                                                   model.vals[<<"x", id[2], id[3]>>], q)
                                     ELSE q])
                IN  \E v \in {v \in {moved} : UCFeasible(script, model, v)} :
                        model' = [model EXCEPT !.vals = v]
    /\ pc' = pc + 1
    /\ UNCHANGED <<script, capacity, sols, atSolve, out, returned, outcome>>

NextFeasible == LoadAssignment \/ MoveOutputs

SpecFeasible == InitFeasible /\ [][NextFeasible]_vars

\* the state holds an assignment that satisfies a unit-commitment model
UCLoaded == script \in UCScripts /\ outcome = "feasible"

----------------------------------------------------------------------------
(* The feasible region of the job-shop model: the model as built, loaded
   with an assignment that satisfies every constraint instance and every
   bound.  The binaries of a machine range over every choice con_symmetry
   allows, the start times are the least ones for the binaries, and one of
   the times is then delayed. *)

JobPairs == {ij \in Range(products) \X Range(products) : ij[1] # ij[2]}

\* the values of x[i,j,k] on machine k, i # j, that con_symmetry allows
MachineBits(k) ==
    {bits \in [JobPairs -> 0..1] :
        \A ij \in JobPairs :
            con_symmetry([id \in {XId(ij[1], ij[2], k), XId(ij[2], ij[1], k)} |->
                            bits[<<id[2], id[3]>>]], ij[1], ij[2], k)}

\* x[i,i,k] occurs in no constraint and keeps its initial value
JobFreeBinaries ==
    {[id \in JobXIds |->
        IF id[2] = id[3] THEN JobModel.vals[id]
        ELSE f[id[4]][<<id[2], id[3]>>]] :
        f \in {f \in [Range(machines) ->
                        UNION {MachineBits(k) : k \in Range(machines)}] :
                    \A k \in Range(machines) : f[k] \in MachineBits(k)}}

JobFeasible(m, v) ==
    /\ \A id \in DOMAIN v :
            /\ v[id] >= m.bounds[id][1]
            /\ m.bounds[id][2] # None => v[id] <= m.bounds[id][2]
    /\ \A n \in 1..Len(m.cons) : JobConHolds(m.cons[n], v)

\* a start time or the total time is delayed by 1..MaxDelay
MaxDelay == 1

InitJobFeasible ==
    /\ script = "jobshop"
    /\ capacity = W_max
    /\ pc = 0
    /\ model = JobModel
    /\ sols = [r \in ResultVars(script) |-> NoResult]
    /\ atSolve = << >>
    /\ out = << >>
    /\ returned = None
    /\ outcome = "running"

LoadJobAssignment ==
    /\ outcome = "running" /\ pc = 0
    /\ \E xb \in JobFreeBinaries :
        LET zero == [jk \in Range(products) \X Range(machines) |-> 0]
            least == JobLeast(xb, zero, Cardinality(DOMAIN zero) + 1)
        IN  /\ least.ok
            /\ \E v \in {v \in {Table(JobPoint(xb, least.t))} :
                            JobFeasible(model, v)} :
                    model' = [model EXCEPT !.vals = v]
    /\ outcome' = "feasible"
    /\ UNCHANGED <<script, capacity, pc, sols, atSolve, out, returned>>

Delay ==
    /\ outcome = "feasible" /\ pc = 0
    /\ \E id \in JobTIds \cup {TTotal} : \E d \in 1..MaxDelay :
        \E v \in {v \in {[model.vals EXCEPT ![id] = @ + d]} :
                        JobFeasible(model, v)} :
            model' = [model EXCEPT !.vals = v]
    /\ pc' = 1
    /\ UNCHANGED <<script, capacity, sols, atSolve, out, returned, outcome>>

NextJobFeasible == LoadJobAssignment \/ Delay

SpecJobFeasible == InitJobFeasible /\ [][NextJobFeasible]_vars

\* the state holds an assignment that satisfies the job-shop model
JobLoaded == script = "jobshop" /\ outcome = "feasible"

----------------------------------------------------------------------------
(* boxvolume_lagrange1.py and boxvolume_lagrange2.py: the residual handed
   to fsolve.  Ldiff is written out by hand.  gradL differentiates the
   function Lagrangian with autograd, which runs the function on traced
   values and differentiates the expression it has recorded; here the
   traced values are polynomials in x[0], x[1], x[2], x[3] (x[i] of the
   scripts is x[i + 1] of the model), a polynomial being a sequence of
   terms c * x1^e[1] * x2^e[2] * x3^e[3] * x4^e[4]. *)

PolyConst(a) == << [c |-> a, e |-> <<0, 0, 0, 0>>] >>
PolyVar(i) == << [c |-> 1, e |-> [n \in 1..4 |-> IF n = i THEN 1 ELSE 0]] >>
PolyAdd(P, Q) == P \o Q
PolyScale(a, P) == [n \in 1..Len(P) |-> [c |-> a * P[n].c, e |-> P[n].e]]
PolyMul(P, Q) ==
    [n \in 1..(Len(P) * Len(Q)) |->
        LET tp == P[((n - 1) \div Len(Q)) + 1]
            tq == Q[((n - 1) % Len(Q)) + 1]
        IN  [c |-> tp.c * tq.c, e |-> [i \in 1..4 |-> tp.e[i] + tq.e[i]]]]

\* the derivative in x[i]: every term by the power rule
PolyDiff(P, i) ==
    [n \in 1..Len(P) |->
        [c |-> P[n].c * P[n].e[i],
         e |-> [j \in 1..4 |-> IF j = i /\ P[n].e[j] > 0 THEN P[n].e[j] - 1
                               ELSE P[n].e[j]]]]

RECURSIVE Pow(_, _)
Pow(a, n) == IF n = 0 THEN 1 ELSE a * Pow(a, n - 1)

PolyEval(P, x) ==
    SumOver([n \in 1..Len(P) |->
                P[n].c * Pow(x[1], P[n].e[1]) * Pow(x[2], P[n].e[2])
                    * Pow(x[3], P[n].e[3]) * Pow(x[4], P[n].e[4])],
            1..Len(P))

\* boxvolume_lagrange1.py
Ldiff(x) ==
    << 8 * x[2] * x[3] - 2 * x[4] * x[1],
       8 * x[1] * x[3] - 2 * x[4] * x[2],
       8 * x[1] * x[2] - 2 * x[4] * x[3],
       x[1] * x[1] + x[2] * x[2] + x[3] * x[3] - 1 >>

\* boxvolume_lagrange2.py, on traced values; math.prod starts from 1 and
\* sum from 0
volume(X) ==
    PolyScale(8, PolyMul(PolyMul(PolyMul(PolyConst(1), X[1]), X[2]), X[3]))

constraint_fun(X) ==
    PolyAdd(PolyAdd(PolyAdd(PolyAdd(PolyConst(0), PolyMul(X[1], X[1])),
                            PolyMul(X[2], X[2])),
                    PolyMul(X[3], X[3])),
            PolyConst(-1))

LagrangianSum(X) ==
    PolyAdd(volume(SubSeq(X, 1, 3)),
            PolyMul(X[4], constraint_fun(SubSeq(X, 1, 3))))

Lagrangian(X) ==
    PolyAdd(volume(SubSeq(X, 1, 3)),
            PolyScale(-1, PolyMul(X[4], constraint_fun(SubSeq(X, 1, 3)))))

\* the traced input of grad(Lagrangian)
Traced == [i \in 1..4 |-> PolyVar(i)]

\* dLdlambd is computed and dropped; the last entry is constraint_fun
gradL(x) ==
    LET dL == [i \in 1..4 |-> PolyEval(PolyDiff(Lagrangian(Traced), i), x)]
    IN  << dL[1], dL[2], dL[3],
           PolyEval(constraint_fun(SubSeq(Traced, 1, 3)), x) >>

(* The two residuals called on one input, in either order.  The inputs are
   the integer points with coordinates in -MaxCoord..MaxCoord; the entries
   of both residuals are polynomials of degree at most 2 in each
   coordinate. *)

MaxCoord == 2

ResidualInputs == [1..4 -> (-MaxCoord)..MaxCoord]

InitResidual ==
    /\ script = "boxvolume_lagrange"
    /\ capacity = W_max
    /\ pc = 0
    /\ model \in ResidualInputs
    /\ sols = << >>
    /\ atSolve = << >>
    /\ out = << >>
    /\ returned = None
    /\ outcome = "running"

Called(name) == \E n \in 1..Len(out) : out[n].kind = name

CallLdiff ==
    /\ outcome = "running" /\ ~Called("Ldiff")
    /\ out' = Append(out, [kind |-> "Ldiff", val |-> Ldiff(model)])
    /\ pc' = pc + 1
    /\ UNCHANGED <<script, capacity, model, sols, atSolve, returned, outcome>>

CallGradL ==
    /\ outcome = "running" /\ ~Called("gradL")
    /\ out' = Append(out, [kind |-> "gradL", val |-> gradL(model)])
    /\ pc' = pc + 1
    /\ UNCHANGED <<script, capacity, model, sols, atSolve, returned, outcome>>

NextResidual == CallLdiff \/ CallGradL

SpecResidual == InitResidual /\ [][NextResidual]_vars

\* what a call of the residual returned
Returned(name) == out[CHOOSE n \in 1..Len(out) : out[n].kind = name].val

----------------------------------------------------------------------------
(* Position predicates used by the properties *)

SolvesDone == Len(atSolve)
Displayed == \E n \in 1..Len(out) : out[n].kind = "display"

----------------------------------------------------------------------------
(* Properties *)

\* C1: with the capacity of knapsack.py (14), whatever optimal selection the
\* solver returns has total weight <= 14 and total value >= 21.
C1_KnapsackOptimum ==
    (script = "knapsack" /\ capacity = W_max /\ SolvesDone = 1) =>
        /\ sols["opt_success"].status = "optimal"
        /\ KnapWeight(KnapSelected(model)) <= W_max
        /\ KnapValue(KnapSelected(model)) >= 21
        /\ sols["opt_success"].objective = KnapValue(KnapSelected(model))

C1_Witness ==
    /\ script = "knapsack" /\ capacity = W_max /\ SolvesDone = 1
    /\ KnapSelected(model) = {"hammer", "screwdriver", "towel"}

\* the selection the specification names as the reference
Reference == {"wrench", "screwdriver", "towel"}

\* C2 (as stated): the reference selection wrench+screwdriver+towel is
\* feasible for capacity 14 and has total value exactly 21.
C2_ReferenceValue21 ==
    (script = "knapsack" /\ capacity = W_max) =>
        /\ Reference \in KnapFeasible(capacity)
        /\ KnapValue(Reference) = 21

\* C2 (amended): the reference selection wrench+screwdriver+towel is
\* feasible for capacity 14 (its weight is exactly 14) and has total value
\* exactly 20.
C2_ReferenceValue20 ==
    (script = "knapsack" /\ capacity = W_max) =>
        /\ Reference \in KnapFeasible(capacity)
        /\ KnapWeight(Reference) = W_max
        /\ KnapValue(Reference) = 20

C2_Witness ==
    /\ script = "knapsack" /\ capacity = W_max /\ SolvesDone = 1
    /\ Reference \in KnapFeasible(capacity)
    /\ KnapValue(KnapSelected(model)) > KnapValue(Reference)

\* C3: with a negative capacity no selection is feasible and the run of
\* knapsack.py ends in an infeasible-error outcome: it neither raises a raw
\* exception nor displays variable values and an objective.
C3_InfeasibleOutcome ==
    (script = "knapsack" /\ capacity < 0) =>
        /\ KnapFeasible(capacity) = {}
        /\ outcome # "raised"
        /\ ~Displayed

\* C4: the blending LP is feasible; whatever maximiser of sum(p[j]*x[j]) the
\* solver returns (scipy or pyomo) has total volume exactly 100 litres,
\* vodka + brandy <= 10 litres and every volume inside its bounds (pilsner
\* >= 0, vodka in [0,7], brandy >= 2, malt in [3,5]); the two formulations
\* have the same feasible set and the same optimal value of p.x (scipy
\* reports it negated, as the minimum of -p.x).
Litres(n) == n * VolUnit

C4_PointOk(pils, v, br, ml) ==
    /\ pils + v + br + ml = Litres(100)
    /\ v + br <= Litres(10)
    /\ pils >= 0
    /\ v >= 0 /\ v <= Litres(7)
    /\ br >= Litres(2)
    /\ ml >= Litres(3) /\ ml <= Litres(5)

C4_Blending ==
    /\ (script = "beer_pyomo" /\ SolvesDone = 1) =>
        LET x == model.vals
            scipy == linprog(Neg(p), A_ub, b_ub, A_eq, b_eq, bounds)
        IN  /\ sols["sol_maxAlc"].status = "optimal"
            /\ C4_PointOk(x["pilsner"], x["vodka"], x["brandy"], x["malt"])
            /\ \E o \in scipy :
                /\ o.status = "optimal"
                /\ o.vals = AsVector(x)
                /\ o.objective = 0 - sols["sol_maxAlc"].objective
            /\ {AsVector(y) : y \in BeerFeasible(atSolve[1])}
                 = LinprogFeasible(A_ub, b_ub, A_eq, b_eq, bounds)
    /\ (script = "beer_scipy" /\ SolvesDone = 1) =>
        LET x == model.vals
        IN  /\ sols["OptimizeResult"].status = "optimal"
            /\ C4_PointOk(x[1], x[2], x[3], x[4])
            /\ \E y \in BeerOptimal(BeerModel, "obj_maxAlc") :
                /\ AsVector(y) = x
                /\ obj_maxAlc_rule(y) = 0 - sols["OptimizeResult"].objective

C4_Witness ==
    /\ script = "beer_pyomo" /\ SolvesDone = 1
    /\ model.vals["vodka"] = Litres(7) /\ model.vals["brandy"] = Litres(3)
    /\ model.vals["pilsner"] = Litres(87)
    /\ sols["sol_maxAlc"].objective = 400 * 6 * VolUnit + VolUnit

\* the scripts that solve, fix the binaries and solve again
FixScripts == UCScripts \cup {"jobshop"}

\* C5: the model handed to the solver at every solve call has exactly one
\* active objective; in beer_pyomo_rules.py that is obj_maxAlc at the first
\* solve and obj_minCost at the second, and obj_maxAlc is inactive from the
\* moment obj_minCost exists.
C5_OneActiveObjective ==
    /\ \A n \in 1..Len(atSolve) :
            Cardinality(ActiveObjectives(atSolve[n])) = 1
    /\ script = "beer_pyomo" =>
        /\ SolvesDone >= 1 => ActiveObjectives(atSolve[1]) = {"obj_maxAlc"}
        /\ SolvesDone >= 2 => ActiveObjectives(atSolve[2]) = {"obj_minCost"}
        /\ (\E n \in 1..Len(model.objs) : model.objs[n].name = "obj_minCost")
                => "obj_maxAlc" \notin ActiveObjectives(model)

C5_Witness ==
    /\ script = "beer_pyomo" /\ SolvesDone = 2
    /\ Len(model.objs) = 2
    /\ sols["sol_minCost"].status = "optimal"

\* the values model.pprint() showed between the first and the second solve
AfterFirstSolve ==
    {out[n].vals : n \in {n \in 1..Len(out) :
                            out[n].kind = "pprint" /\ out[n].after = 1}}

\* C6: in the fix-and-re-solve scripts nothing is fixed until the first
\* solve has returned; the model handed to the second solve has every
\* binary fixed at the value it held after the first solve, and the same
\* constraints, objective and bounds of the continuous variables as the
\* model handed to the first solve; the second solve leaves the fixed
\* values as they are.
C6_FixAndResolveFrame ==
    script \in FixScripts =>
        /\ SolvesDone = 0 => model.fixed = {}
        /\ SolvesDone >= 1 => atSolve[1].fixed = {}
        /\ SolvesDone >= 2 =>
            LET m1 == atSolve[1]
                m2 == atSolve[2]
                ints == IntegerVars(script, m2)
            IN  /\ m2.fixed = ints
                /\ AfterFirstSolve # {}
                /\ \A v \in AfterFirstSolve : \A id \in ints :
                        m2.vals[id] = v[id] /\ model.vals[id] = v[id]
                /\ m2.cons = m1.cons
                /\ m2.objs = m1.objs
                /\ \A id \in DOMAIN m2.bounds : m2.bounds[id] = m1.bounds[id]

C6_Witness ==
    /\ script = "varme" /\ SolvesDone = 2
    /\ sols["sol_lp"].status = "optimal"
    /\ \E id \in model.fixed : model.vals[id] = 1

\* C7: in the unit-commitment and job-shop scripts, when the first (MILP)
\* solve is optimal, the LP solved with all binaries fixed at its values is
\* optimal too and has the same objective value.
C7_RoundTrip ==
    (script \in FixScripts /\ SolvesDone = 2
        /\ sols["sol_milp"].status = "optimal") =>
        /\ sols["sol_lp"].status = "optimal"
        /\ sols["sol_lp"].objective = sols["sol_milp"].objective
        /\ sols["sol_lp"].objective =
                (IF script = "jobshop" THEN obj_time(model.vals)
                 ELSE rule_obj_cost(script, model.vals))

C7_Witness ==
    /\ script = "varme_modified" /\ SolvesDone = 2
    /\ sols["sol_milp"].status = "optimal"
    /\ sols["sol_lp"].solve = 2
    /\ sols["sol_lp"].objective > 0

\* C10: every solver result a script writes is the result of the solve call
\* that most recently preceded the write.
C10_ReportsLatestSolve ==
    \A n \in 1..Len(out) :
        out[n].kind = "write" => out[n].result.solve = out[n].after

\* the model holds a value for every variable
HasValues(m) == \A v \in DOMAIN m.vals : m.vals[v] # None

HasLine(lines, kind, con) ==
    \E n \in 1..Len(lines) : lines[n].kind = kind /\ lines[n].of = con

\* C8: a call of any print_solution on a solved model returns, and for every
\* constraint that has no dual (no suffix on the model, or no entry for the
\* constraint) the output has a 'duals unavailable' line; it never raises.
C8_DualsUnavailableReported ==
    [][(CallPrintSolution /\ HasValues(model)) =>
            /\ outcome' = "returned"
            /\ \A con \in Range(model.cons) :
                    ~DualAvailable(model, con)
                        => HasLine(out', "duals_unavailable", con)]_vars

\* C9: when a call of print_solution returns, the model (values, bounds,
\* fixed flags, constraints, objectives and their activation, dual suffix,
\* name) is as it was before the call, and the object returned is that
\* model.
C9_PureRead ==
    [][((CallPrintSolution /\ outcome' = "returned")
            \/ (PrintSolution /\ outcome' = "running")) =>
            /\ model' = model
            /\ returned' = model]_vars

C9_Witness ==
    /\ script = "jobshop" /\ pc = 1 /\ outcome = "returned"
    /\ model.dual.attached
    /\ HasLine(out, "duals_unavailable", model.cons[1])
    /\ HasLine(out, "dual", model.cons[Len(model.cons)])

\* the directions of a suffix that take dual values from the solver
ImportDirections == {"IMPORT", "IMPORT_EXPORT"}

\* C11: in every fix-and-re-solve script the model handed to the second
\* solve carries a dual suffix whose direction imports duals, and after an
\* optimal second solve the suffix holds a dual for every constraint of the
\* model.
C11_DualsRecorded ==
    (script \in FixScripts /\ SolvesDone >= 2) =>
        /\ atSolve[2].dual.attached
        /\ atSolve[2].dual.direction \in ImportDirections
        /\ sols["sol_lp"].status = "optimal" =>
                \A n \in 1..Len(model.cons) : DualAvailable(model, model.cons[n])

\* C12: in the unit-commitment models every constraint instance that is
\* built reads only variables of the model (periods inside 1..10: j-1 >= 1,
\* j+3 <= 10, j+5 <= 10), the rules read nothing else, no instance is built
\* for an index its rule skips, the cyclic and consecutive-run families are
\* built exactly for j <= 5 and the others for every j, and the demand rule
\* reads a key in 1..5 for every period.
C12_IndicesInDomain ==
    script \in UCScripts =>
        /\ \A n \in 1..Len(model.cons) :
            LET con == model.cons[n]
            IN  /\ UCRefs(script, con) # {}
                /\ UCRefs(script, con) \subseteq UCIds(script)
                /\ \A id \in UCRefs(script, con) : id[3] \in time_periods
                /\ UCConHolds(script, con,
                              [id \in UCRefs(script, con) |-> 0]) \in BOOLEAN
                /\ ~UCSkipped(con[1], con[3])
                /\ con[3] \in time_periods
        /\ \A fam \in Range(UCFamilies(script)) :
                {con[3] : con \in {c \in Range(model.cons) : c[1] = fam}}
                    = IF fam \in {"con_cyclic", "con_sequence", "con_consec"}
                      THEN 1..5 ELSE time_periods
        /\ \A j \in time_periods :
                /\ DemandKey(j) \in DOMAIN demand
                /\ rule_param_power_demand(j) = demand[DemandKey(j)]

C12_Witness ==
    /\ script = "varme" /\ SolvesDone = 1
    /\ \E n \in 1..Len(model.cons) : model.cons[n] = <<"con_cyclic", "M3", 5>>
    /\ \E n \in 1..Len(model.cons) :
            /\ model.cons[n] = <<"con_consec", "M1", 5>>
            /\ <<"x", "M1", 8>> \in UCRefs(script, model.cons[n])
    /\ \E n \in 1..Len(model.cons) :
            /\ model.cons[n] = <<"con_warm_start_lb", "M2", 2>>
            /\ <<"z", "M2", 1>> \in UCRefs(script, model.cons[n])

\* the value an assignment gives a variable of the unit-commitment model
Val(var, k, j) == model.vals[<<var, k, j>>]

\* C14: in every assignment that satisfies all constraints of a
\* unit-commitment model no unit is on in four consecutive periods, in any
\* window of 1..10, the windows that start in periods 6 and 7 included.
C14_NoFourInARow ==
    UCLoaded =>
        \A k \in Range(units) : \A j \in 1..7 :
            Val("x", k, j) + Val("x", k, j + 1) + Val("x", k, j + 2)
                + Val("x", k, j + 3) <= 3

C14_Witness ==
    /\ UCLoaded
    /\ \E k \in Range(units) :
            /\ Val("x", k, 6) = 1 /\ Val("x", k, 7) = 1 /\ Val("x", k, 8) = 1
            /\ Val("x", k, 9) = 0

\* C15: in every feasible assignment of a unit-commitment model the on/off
\* state of every unit in period j equals its state in period j + 5, for
\* j in 1..5.
C15_StateRepeats ==
    UCLoaded =>
        \A k \in Range(units) : \A j \in 1..5 :
            Val("x", k, j) = Val("x", k, j + 5)

C15_Witness ==
    /\ UCLoaded
    /\ \E k \in Range(units) : \E i, j \in 1..5 :
            /\ Val("x", k, i) = 1 /\ Val("x", k, i + 5) = 1
            /\ Val("x", k, j) = 0 /\ Val("x", k, j + 5) = 0

\* C16: in every feasible assignment of a unit-commitment model, for every
\* unit and every period j >= 2, y = 1 exactly when the unit is off in
\* j - 1 and on in j, z = 1 exactly when it is on in j - 1 and off in j,
\* and y and z are never both 1; in period 1, y = x and z = 0.
C16_StartStopDetermined ==
    UCLoaded =>
        \A k \in Range(units) :
            /\ \A j \in time_periods \ {1} :
                /\ Val("y", k, j) = 1
                        <=> (Val("x", k, j - 1) = 0 /\ Val("x", k, j) = 1)
                /\ Val("z", k, j) = 1
                        <=> (Val("x", k, j - 1) = 1 /\ Val("x", k, j) = 0)
            /\ \A j \in time_periods :
                    ~(Val("y", k, j) = 1 /\ Val("z", k, j) = 1)
            /\ Val("y", k, 1) = Val("x", k, 1)
            /\ Val("z", k, 1) = 0

C16_Witness ==
    /\ UCLoaded
    /\ \E k \in Range(units) : \E i, j \in time_periods \ {1} :
            /\ Val("y", k, i) = 1 /\ Val("z", k, j) = 1
            /\ Val("x", k, 1) = 1 /\ Val("y", k, 1) = 1

\* what the starts in periods 6..10 are charged, in tenths: start_cost for
\* a warm start and 1.5 * start_cost for a cold one
StartCharges(v) ==
    SumOver([k \in Range(units) |->
                SumOver([j \in LastFive |->
                            v[<<"y", k, j>>]
                                * (IF v[<<"w", k, j>>] = 1 THEN 10 * start_cost[k]
                                   ELSE 15 * start_cost[k])],
                        LastFive)],
            Range(units))

\* the cold start of period 1, which the objectives of homework3_copy.py
\* and varme_modified.py charge as well
FirstStart(s, v) ==
    IF s = "varme" THEN 0
    ELSE SumOver([k \in Range(units) |-> 15 * start_cost[k] * v[<<"y", k, 1>>]],
                 Range(units))

\* C17: in every feasible assignment of a unit-commitment model, w = 1
\* exactly when z = 1 in the period before and y = 1 in the period, for
\* j >= 2; w is 0 in periods 1 and 2; w <= y; and every start in periods
\* 6..10 is charged once in the objective, at start_cost when warm and at
\* 1.5 * start_cost when cold: besides the running cost and the start of
\* period 1 the objective holds these charges and nothing else.
C17_WarmStartCharged ==
    UCLoaded =>
        /\ \A k \in Range(units) :
            /\ \A j \in time_periods \ {1} :
                    Val("w", k, j) = 1
                        <=> (Val("z", k, j - 1) = 1 /\ Val("y", k, j) = 1)
            /\ Val("w", k, 1) = 0
            /\ Val("w", k, 2) = 0
            /\ \A j \in time_periods : Val("w", k, j) <= Val("y", k, j)
        /\ rule_obj_cost(script, model.vals)
                = running_cost_sum(script, model.vals)
                    + FirstStart(script, model.vals)
                    + StartCharges(model.vals)

C17_Witness ==
    /\ UCLoaded
    /\ \E k, u \in Range(units) : \E i, j \in LastFive :
            /\ Val("y", k, i) = 1 /\ Val("w", k, i) = 1
            /\ Val("y", u, j) = 1 /\ Val("w", u, j) = 0

\* C18: in every feasible assignment of a unit-commitment model the output
\* of a unit is 0 in a period where it is off and between its lower and
\* upper limit where it is on, the outputs of a period add up to at least
\* the period's demand, and the demand of period j + 5 is that of period j.
C18_OutputWithinLimits ==
    UCLoaded =>
        /\ \A k \in Range(units) : \A j \in time_periods :
            LET q == Val(LoadVar(script), k, j)
            IN  /\ Val("x", k, j) = 0 => q = 0
                /\ Val("x", k, j) = 1 =>
                        /\ unit_limit_lb[k] <= q
                        /\ q <= unit_limit_ub(script)[k]
        /\ \A j \in time_periods :
                SumOver([k \in Range(units) |-> Val(LoadVar(script), k, j)],
                        Range(units)) >= rule_param_power_demand(j)
        /\ \A j \in 1..5 :
                rule_param_power_demand(j + 5) = rule_param_power_demand(j)

C18_Witness ==
    /\ UCLoaded
    /\ \E k, u \in Range(units) : \E j \in time_periods :
            /\ Val("x", k, j) = 1
            /\ unit_limit_lb[k] < Val(LoadVar(script), k, j)
            /\ Val(LoadVar(script), k, j) < unit_limit_ub(script)[k]
            /\ Val("x", u, j) = 0
    /\ \E j \in time_periods :
            SumOver([k \in Range(units) |-> Val(LoadVar(script), k, j)],
                    Range(units)) > rule_param_power_demand(j)

\* C19: in every feasible assignment of the job-shop model, two distinct
\* products processed on the same machine do not overlap there, exactly one
\* of x[i,j,k] and x[j,i,k] is 1, and it names the product processed first.
C19_NoOverlapOnMachine ==
    JobLoaded =>
        \A k \in Range(machines) : \A i, j \in K[k] :
            i # j =>
                LET ti == model.vals[TId(i, k)]
                    tj == model.vals[TId(j, k)]
                    xij == model.vals[XId(i, j, k)]
                    xji == model.vals[XId(j, i, k)]
                IN  /\ ti + tau[<<i, k>>] <= tj \/ tj + tau[<<j, k>>] <= ti
                    /\ xij + xji = 1
                    /\ xij = 1 => (ti < tj /\ ti + tau[<<i, k>>] <= tj)

C19_Witness ==
    /\ JobLoaded /\ pc = 1
    /\ model.vals[XId("A", "B", "M1")] = 1
    /\ model.vals[XId("B", "A", "M4")] = 1
    /\ \E k \in Range(machines) : \E i, j \in K[k] :
            /\ model.vals[XId(i, j, k)] = 1
            /\ model.vals[TId(i, k)] + tau[<<i, k>>] < model.vals[TId(j, k)]
    /\ \E k \in Range(machines) : \E i, j \in K[k] :
            /\ model.vals[XId(i, j, k)] = 1
            /\ model.vals[TId(i, k)] + tau[<<i, k>>] = model.vals[TId(j, k)]

\* C20: in every feasible assignment of the job-shop model every product
\* visits its machines in the order of S: an operation on a machine earlier
\* in S[j] ends before the one on a later machine starts; and T is at least
\* the end of every operation.
C20_RoutingOrder ==
    JobLoaded =>
        /\ \A j \in Range(products) : \A a, c \in 1..Len(S[j]) :
            a < c =>
                model.vals[TId(j, S[j][a])] + tau[<<j, S[j][a]>>]
                    <= model.vals[TId(j, S[j][c])]
        /\ \A k \in Range(machines) : \A j \in K[k] :
                model.vals[TTotal] >= model.vals[TId(j, k)] + tau[<<j, k>>]

C20_Witness ==
    /\ JobLoaded /\ pc = 1
    /\ model.vals[TId("A", "M1")] + tau[<<"A", "M1">>] < model.vals[TId("A", "M3")]
    /\ model.vals[TId("A", "M3")] + tau[<<"A", "M3">>] = model.vals[TId("A", "M4")]
    /\ \E k \in Range(machines) : \E j \in K[k] :
            model.vals[TTotal] = model.vals[TId(j, k)] + tau[<<j, k>>]

\* C21: for every input (x1, x2, x3, lambda), Ldiff of boxvolume_lagrange1.py
\* and gradL of boxvolume_lagrange2.py return the same four numbers: the
\* derivatives of 8*x1*x2*x3 - lambda*(x1^2 + x2^2 + x3^2 - 1) in x1, x2,
\* x3, followed by x1^2 + x2^2 + x3^2 - 1.
C21_SameResidual ==
    (Called("Ldiff") /\ Called("gradL")) =>
        /\ \A i \in 1..4 : Returned("Ldiff")[i] = Returned("gradL")[i]
        /\ Returned("gradL")[4]
                = model[1] * model[1] + model[2] * model[2]
                    + model[3] * model[3] - 1

C21_Witness ==
    /\ Called("Ldiff") /\ Called("gradL")
    /\ model = <<1, 2, -1, 2>>
    /\ Returned("gradL") = <<-20, -16, 20, 5>>

====
